---- MODULE Spec2Model ----
(***************************************************************************)
(* Model of lib/ansible/modules/cloud/digital_ocean/digital_ocean_domain.py *)
(* One run of main() against a DNS provider, followed by further runs with *)
(* the same parameters.  The provider (the HTTP helper and the REST API     *)
(* behind it) is the environment: it keeps the list of domains and their    *)
(* records, answers every call, and may raise a transport fault instead.    *)
(***************************************************************************)
EXTENDS Integers, Sequences, FiniteSets, TLC

(* ---------------------------- bounds ---------------------------------- *)
MaxDomains == 2
MaxId == 2
MaxRecords == 2
MaxRuns == 2

(* ------------------------- value universes ---------------------------- *)
\* Python's None is the empty sequence, a supplied value x is <<x>>.
None == <<>>

Some(x) == <<x>>

DomainIds == 1..MaxId

DomainNames == {"a.example.com", "b.example.com"}

\* The third value is a string a caller may pass as ip that also spells a
\* record id; the parameter is declared type='str' and is not validated.
Ips == {"1.2.3.4", "5.6.7.8", "11"}

States == {"present", "absent"}

RecordKinds ==
    { [name |-> "@",   type |-> "A",  data |-> "1.2.3.4"],
      [name |-> "@",   type |-> "A",  data |-> "5.6.7.8"],
      [name |-> "www", type |-> "A",  data |-> "1.2.3.4"],
      [name |-> "@",   type |-> "NS", data |-> "1.2.3.4"] }

Range(s) == { s[i] : i \in DOMAIN s }

Injective(s) == \A i, j \in DOMAIN s : s[i] = s[j] => i = j

SeqsUpTo(S, n) == UNION { [1..k -> S] : k \in 0..n }

\* the provider numbers the records of domain d by position
RecordsFor(d, kinds) ==
    [ i \in DOMAIN kinds |->
        [id |-> 10 * d + i, name |-> kinds[i].name,
         type |-> kinds[i].type, data |-> kinds[i].data] ]

KindLists == { ks \in SeqsUpTo(RecordKinds, MaxRecords) : Injective(ks) }

DomainUniverse ==
    { [id |-> d, name |-> n, records |-> RecordsFor(d, ks)] :
        d \in DomainIds, n \in DomainNames, ks \in KindLists }

\* uniqueness of ids and names is enforced by the provider
DomainLists ==
    { ds \in SeqsUpTo(DomainUniverse, MaxDomains) :
        \A i, j \in DOMAIN ds :
            (ds[i].id = ds[j].id \/ ds[i].name = ds[j].name) => i = j }

\* main(): argument_spec of AnsibleModule
ParamSets ==
    [ state : States,
      id    : {None} \cup { Some(d) : d \in DomainIds },
      name  : {None} \cup { Some(n) : n \in DomainNames },
      ip    : { Some(a) : a \in Ips } ]

(* --------------------------- formatting -------------------------------- *)
Digit(d) == CASE d = 0 -> "0" [] d = 1 -> "1" [] d = 2 -> "2" [] d = 3 -> "3"
              [] d = 4 -> "4" [] d = 5 -> "5" [] d = 6 -> "6" [] d = 7 -> "7"
              [] d = 8 -> "8" [] d = 9 -> "9"

RECURSIVE IntToStr(_)
IntToStr(n) == IF n < 10 THEN Digit(n) ELSE IntToStr(n \div 10) \o Digit(n % 10)

\* '%s' % x for an optional int
FmtInt(x) == IF x = None THEN "None" ELSE IntToStr(x[1])

\* '%s' % x for an optional str
FmtStr(x) == IF x = None THEN "None" ELSE x[1]

(* ------------------- the provider (REST API + helper) ------------------ *)
\* GET domains/ -> {domains: [Domain]}
Listing(ds) == [ i \in DOMAIN ds |-> [id |-> ds[i].id, name |-> ds[i].name] ]

\* index of the domain a path 'domains/<id>/...' addresses, 0 if there is none
DomainAt(ds, seg) ==
    LET M == { i \in DOMAIN ds : IntToStr(ds[i].id) = seg }
    IN  IF M = {} THEN 0 ELSE CHOOSE i \in M : TRUE

\* index of the record 'domains/<id>/records/<record_id>' addresses, 0 if none
RecordAt(rs, seg) ==
    LET M == { i \in DOMAIN rs : IntToStr(rs[i].id) = seg }
    IN  IF M = {} THEN 0 ELSE CHOOSE i \in M : TRUE

\* the id the provider gives to the next domain it creates
FreshId(ds) == CHOOSE n \in 1..(Len(ds) + 1) : \A i \in DOMAIN ds : ds[i].id # n

\* POST domains/ is accepted only for a name that is given and not yet taken
CanCreate(ds, data) ==
    /\ data.name # None
    /\ \A i \in DOMAIN ds : ds[i].name # data.name[1]

\* the created domain points its root A record at the given address
Created(ds, data) ==
    LET d == FreshId(ds)
    IN  [id |-> d, name |-> data.name[1],
         records |-> RecordsFor(d, << [name |-> "@", type |-> "A",
                                      data |-> FmtStr(data.ip_address)] >>)]

\* PUT domains/<id>/records/<record_id> with {name}: sets the fields sent
Renamed(ds, i, j, data) ==
    [ds EXCEPT ![i].records[j].name =
        IF data.name = None THEN @ ELSE data.name[1]]

\* DELETE domains/<id>
Removed(ds, i) == [ k \in 1..(Len(ds) - 1) |-> IF k < i THEN ds[k] ELSE ds[k + 1] ]

ErrorMessage == "Unprocessable Entity"

\* the error payload carries a message
ErrorJson == [id |-> "unprocessable_entity", message |-> ErrorMessage]

\* POST domains/ -> 201 {domain: Domain}, or an error payload
CreateAnswers(ds, data) ==
    { [status_code |-> 422, json |-> ErrorJson] }
    \cup
    ( IF CanCreate(ds, data)
      THEN { [status_code |-> 201,
              json |-> [domain |-> [id |-> Created(ds, data).id,
                                    name |-> Created(ds, data).name]]] }
      ELSE {} )

(* --------------------------- DoManager --------------------------------- *)
NotFound == <<>>

\* find(), line 99: the early return that makes no listing call
FindSkips(p) == p.name = None \/ p.id = None

\* find(), lines 102-109: the first listed domain matching by id or by name
FindIn(listing, p) ==
    LET M == { i \in DOMAIN listing :
                 \/ Some(listing[i].id) = p.id
                 \/ Some(listing[i].name) = p.name }
    IN  IF M = {} THEN NotFound
        ELSE Some(listing[CHOOSE i \in M : \A j \in M : i <= j])

\* add(), line 112
AddParams(p) == [name |-> p.name, ip_address |-> p.ip]

\* add() that forgets to unwrap the created domain
AddReturnWrapped(resp) == resp.json

\* add(), lines 114-119
AddReturn(resp) ==
    IF resp.status_code = 201 THEN resp.json.domain ELSE resp.json

\* all_domain_records(), line 122
RecordsPath(p) == << "domains", FmtInt(p.id), "records" >>

\* destroy_domain(), line 126
DestroyPath(p) == << "domains", FmtInt(p.id) >>

\* edit_domain_record(), line 130
EditParams(p) == [name |-> p.name]

\* edit_domain_record(), line 131
EditPath(p) == << "domains", FmtInt(p.id), "records", FmtStr(p.ip) >>

(* ------------------------------ core ----------------------------------- *)
\* lines 149-152: the last record named "@" of type A, None if there is none
AtRecord(records) ==
    LET M == { i \in DOMAIN records :
                 records[i].name = "@" /\ records[i].type = "A" }
    IN  IF M = {} THEN None
        ELSE Some(records[CHOOSE i \in M : \A j \in M : j <= i])

\* line 154
NeedsEdit(rec, p) == ~ (Some(rec.data) = p.ip)

\* core() with the test of line 159 inverted
BranchInverted(state, dom) ==
    IF state = "present"
    THEN IF dom = NotFound THEN "add" ELSE "records"
    ELSE IF state = "absent"
         THEN IF dom = NotFound THEN "destroy" ELSE "notfound"
         ELSE "return"

\* core() that creates a missing domain whatever the desired state
BranchIgnoresState(state, dom) ==
    IF dom = NotFound
    THEN "add"
    ELSE IF state = "present" THEN "records" ELSE "destroy"

\* lines 140, 141, 147, 158, 159: which branch of core is taken
Branch(state, dom) ==
    IF state = "present"
    THEN IF dom = NotFound THEN "add" ELSE "records"
    ELSE IF state = "absent"
         THEN IF dom = NotFound THEN "notfound" ELSE "destroy"
         ELSE "return"

\* line 143
HasMessage(d) == "message" \in DOMAIN d

Call(verb, path, data) == [verb |-> verb, path |-> path, data |-> data]

(* ------------------------------ state ---------------------------------- *)
VARIABLES
    params,     \* module.params: state, id, name, ip
    domains,    \* the provider's domains, each with its records
    domains0,   \* the provider's domains when the current run started
    run,        \* number of the current run of main()
    pc,         \* position of the current run
    domain,     \* core's local: what find() returned
    calls,      \* provider calls issued by the current run, in order
    sent,       \* results sent to the caller by the current run, in order
    exc,        \* to_native(e) of the exception travelling up to main()
    resp,       \* the provider's answer to the create call of the current run
    faulted,    \* a provider call of the current run raised a transport fault
    prevSent    \* the results the previous run sent

vars == << params, domains, domains0, run, pc, domain, calls, sent, exc,
          resp, faulted, resp, prevSent >>

TransportFault == "transport fault"

AttributeError == "'NoneType' object has no attribute 'data'"

KeyErrorRecords == "'domain_records'"

KeyErrorRecord == "'domain_record'"

RequiredOneOf == "one of the following is required: id, name"

DomainNotFound == "Domain not found."

Init ==
    /\ params \in ParamSets
    /\ domains \in DomainLists
    /\ domains0 = domains
    /\ run = 1
    /\ pc = "main"
    /\ domain = NotFound
    /\ calls = << >>
    /\ sent = << >>
    /\ exc = ""
    /\ resp = None
    /\ faulted = FALSE
    /\ prevSent = << >>

\* module.exit_json(**kw) and module.fail_json(**kw) send the result and
\* leave the process (SystemExit is not an Exception, main() does not catch it)
ExitJson(kw) ==
    /\ sent' = Append(sent, kw)
    /\ pc' = "done"

\* a provider call that raises: the exception travels up to main()
Raises(call, e, isFault) ==
    /\ calls' = Append(calls, call)
    /\ exc' = e
    /\ faulted' = (faulted \/ isFault)
    /\ pc' = "except"
    /\ UNCHANGED << params, domains, domains0, run, domain, sent, resp, prevSent >>

\* main(), lines 166-177: AnsibleModule() checks required_one_of
Main ==
    /\ pc = "main"
    /\ IF params.id = None /\ params.name = None
       THEN /\ ExitJson([failed |-> TRUE, msg |-> RequiredOneOf])
       ELSE /\ pc' = "find"
            /\ UNCHANGED sent
    /\ UNCHANGED << params, domains, domains0, run, domain, calls, exc, faulted, resp, prevSent >>

\* core(), line 139: domain = do_manger.find()
CoreFind ==
    /\ pc = "find"
    /\ IF FindSkips(params)
       THEN /\ domain' = NotFound
            /\ pc' = "core"
            /\ UNCHANGED << params, domains, domains0, run, calls, sent, exc, faulted, resp, prevSent >>
       ELSE LET call == Call("GET", << "domains" >>, None)
            IN  \/ Raises(call, TransportFault, TRUE)
                \/ /\ calls' = Append(calls, call)
                   /\ domain' = FindIn(Listing(domains), params)
                   /\ pc' = "core"
                   /\ UNCHANGED << params, domains, domains0, run, sent, exc, faulted, resp, prevSent >>

\* core(), lines 142-146: add(), then fail_json or exit_json
CoreAdd ==
    /\ pc = "core"
    /\ Branch(params.state, domain) = "add"
    /\ LET data == AddParams(params)
           call == Call("POST", << "domains" >>, Some(data))
       IN  \/ Raises(call, TransportFault, TRUE)
           \/ /\ calls' = Append(calls, call)
              /\ \E r \in CreateAnswers(domains, data) :
                    /\ resp' = Some(r)
                    /\ domains' = IF r.status_code = 201
                                  THEN Append(domains, Created(domains, data))
                                  ELSE domains
                    /\ LET d == AddReturn(r)
                       IN  IF HasMessage(d)
                           THEN ExitJson([failed |-> TRUE, changed |-> FALSE,
                                          msg |-> d.message])
                           ELSE ExitJson([failed |-> FALSE, changed |-> TRUE,
                                          domain |-> Some(d)])
              /\ UNCHANGED << params, domains0, run, domain, exc, faulted, prevSent >>

\* the exception raised inside core(), with no provider call involved
Throws(e) ==
    /\ exc' = e
    /\ pc' = "except"
    /\ UNCHANGED sent

\* core(), lines 148-154: all_domain_records(), the scan and the comparison
CoreRecords ==
    /\ pc = "core"
    /\ Branch(params.state, domain) = "records"
    /\ LET call == Call("GET", RecordsPath(params), None)
           i == DomainAt(domains, call.path[2])
       IN  \/ Raises(call, TransportFault, TRUE)
           \/ /\ calls' = Append(calls, call)
              /\ IF i = 0
                 THEN Throws(KeyErrorRecords)
                 ELSE LET at_record == AtRecord(domains[i].records)
                      IN  IF at_record = None
                          THEN Throws(AttributeError)
                          ELSE IF NeedsEdit(at_record[1], params)
                               THEN pc' = "edit" /\ UNCHANGED << exc, sent >>
                               ELSE pc' = "done" /\ UNCHANGED << exc, sent >>
              /\ UNCHANGED << params, domains, domains0, run, domain, faulted, resp, prevSent >>

\* core(), line 155: edit_domain_record()
CoreEdit ==
    /\ pc = "edit"
    /\ LET data == EditParams(params)
           call == Call("PUT", EditPath(params), Some(data))
           i == DomainAt(domains, call.path[2])
           j == IF i = 0 THEN 0 ELSE RecordAt(domains[i].records, call.path[4])
       IN  \/ Raises(call, TransportFault, TRUE)
           \/ /\ j = 0
              /\ Raises(call, KeyErrorRecord, FALSE)
           \/ /\ j # 0
              /\ calls' = Append(calls, call)
              /\ domains' = Renamed(domains, i, j, data)
              /\ pc' = "refetch"
              /\ UNCHANGED << params, domains0, run, domain, sent, exc, faulted, resp, prevSent >>

\* core(), line 156: exit_json(changed=True, domain=find())
CoreRefetch ==
    /\ pc = "refetch"
    /\ IF FindSkips(params)
       THEN /\ ExitJson([failed |-> FALSE, changed |-> TRUE, domain |-> NotFound])
            /\ UNCHANGED << params, domains, domains0, run, domain, calls, exc, faulted, resp, prevSent >>
       ELSE LET call == Call("GET", << "domains" >>, None)
            IN  \/ Raises(call, TransportFault, TRUE)
                \/ /\ calls' = Append(calls, call)
                   /\ ExitJson([failed |-> FALSE, changed |-> TRUE,
                                domain |-> FindIn(Listing(domains), params)])
                   /\ UNCHANGED << params, domains, domains0, run, domain, exc, faulted, resp, prevSent >>

\* core(), lines 159-160
CoreNotFound ==
    /\ pc = "core"
    /\ Branch(params.state, domain) = "notfound"
    /\ ExitJson([failed |-> TRUE, changed |-> FALSE, msg |-> DomainNotFound])
    /\ UNCHANGED << params, domains, domains0, run, domain, calls, exc, faulted, resp, prevSent >>

\* core(), lines 161-162: destroy_domain(), then exit_json
CoreDestroy ==
    /\ pc = "core"
    /\ Branch(params.state, domain) = "destroy"
    /\ LET call == Call("DELETE", DestroyPath(params), None)
           i == DomainAt(domains, call.path[2])
       IN  \/ Raises(call, TransportFault, TRUE)
           \/ /\ calls' = Append(calls, call)
              /\ domains' = IF i = 0 THEN domains ELSE Removed(domains, i)
              /\ ExitJson([failed |-> FALSE, changed |-> TRUE])
              /\ UNCHANGED << params, domains0, run, domain, exc, faulted, resp, prevSent >>

\* main(), lines 181-182
Except ==
    /\ pc = "except"
    /\ ExitJson([failed |-> TRUE, msg |-> exc, exception |-> "traceback"])
    /\ UNCHANGED << params, domains, domains0, run, domain, calls, exc, faulted, resp, prevSent >>

\* lines 185-186: the caller runs the module again with the same parameters
NextRun ==
    /\ pc = "done"
    /\ run < MaxRuns
    /\ run' = run + 1
    /\ pc' = "main"
    /\ domains0' = domains
    /\ domain' = NotFound
    /\ calls' = << >>
    /\ sent' = << >>
    /\ exc' = ""
    /\ resp' = None
    /\ faulted' = FALSE
    /\ prevSent' = sent
    /\ UNCHANGED << params, domains >>

Next ==
    \/ Main
    \/ CoreFind
    \/ CoreAdd
    \/ CoreRecords
    \/ CoreEdit
    \/ CoreRefetch
    \/ CoreNotFound
    \/ CoreDestroy
    \/ Except
    \/ NextRun

Spec == Init /\ [][Next]_vars

(* ------------------------ vocabulary of the claims --------------------- *)
Supplied == params.id # None \/ params.name # None

\* the listed domains the given id or name identifies, by position
Matches(ds) ==
    { i \in DOMAIN ds : Some(ds[i].id) = params.id \/ Some(ds[i].name) = params.name }

Exists0 == Matches(domains0) # {}

\* the identified domain as it was when the run started
Target0 == domains0[CHOOSE i \in Matches(domains0) : \A j \in Matches(domains0) : i <= j]

RootRecords(rs) == { i \in DOMAIN rs : rs[i].name = "@" /\ rs[i].type = "A" }

OneRoot(d) == Cardinality(RootRecords(d.records)) = 1

TheRoot(d) == d.records[CHOOSE i \in RootRecords(d.records) : TRUE]

\* the run names the domain by its id and by its name
ByBoth(d) == Some(d.id) = params.id /\ Some(d.name) = params.name

IsWrite(c) == c.verb \in {"POST", "PUT", "DELETE"}

Writes == SelectSeq(calls, IsWrite)

Changed(r, b) == "changed" \in DOMAIN r /\ r.changed = b

ListCall == Call("GET", << "domains" >>, None)

\* the run is over and every provider call it made was answered
Answered == pc = "done" /\ ~ faulted

\* the run is over and its lookup, if it made one, was answered
LookedUp == pc = "done" /\ ~ (faulted /\ calls[Len(calls)] = ListCall)

(* ------------------------------ claims --------------------------------- *)

\* C1: a run with state=present, where the domain exists and its root record
\* ("@", A) holds the desired ip, issues no write call and reports a result
\* with changed=false.  Stated for the runs that name the domain by id and
\* by name, the ones in which find() returns it.
C1_NoOp ==
    ( /\ Answered
      /\ params.state = "present"
      /\ Exists0
      /\ ByBoth(Target0)
      /\ OneRoot(Target0)
      /\ Some(TheRoot(Target0).data) = params.ip )
    => /\ Writes = << >>
       /\ Len(sent) = 1
       /\ ~ sent[1].failed
       /\ Changed(sent[1], FALSE)

\* C2: a second run with state=present and the same parameters, after a first
\* run that reported success and left the domain in place, with nobody else
\* touching the provider, reports changed=false and issues no write call.
C2_Idempotent ==
    ( /\ Answered
      /\ run = 2
      /\ params.state = "present"
      /\ Supplied
      /\ Len(prevSent) = 1
      /\ ~ prevSent[1].failed
      /\ Exists0 )
    => /\ Writes = << >>
       /\ Len(sent) = 1
       /\ Changed(sent[1], FALSE)

\* C3: when id or name is supplied, find() makes the listing call and returns
\* the first listed domain whose id or name matches, not-found if none does;
\* when neither is supplied it returns not-found without a listing call.
C3_Find ==
    pc = "core" =>
        IF Supplied
        THEN /\ calls = << ListCall >>
             /\ domain = IF Exists0
                         THEN Some([id |-> Target0.id, name |-> Target0.name])
                         ELSE NotFound
        ELSE /\ calls = << >>
             /\ domain = NotFound

\* C4: a run with state=present, where the domain exists and its root record
\* holds another address than the desired ip, issues exactly one update call,
\* addressed to that record's id under the domain's id, reports changed=true
\* with the re-fetched domain, and leaves the root record holding the ip.
\* Stated for the runs that name the domain by id and by name, the ones in
\* which find() returns it.
C4_Update ==
    ( /\ Answered
      /\ params.state = "present"
      /\ Exists0
      /\ ByBoth(Target0)
      /\ OneRoot(Target0)
      /\ Some(TheRoot(Target0).data) # params.ip )
    => /\ Len(Writes) = 1
       /\ Writes[1].verb = "PUT"
       /\ Writes[1].path = << "domains", IntToStr(Target0.id),
                              "records", IntToStr(TheRoot(Target0).id) >>
       /\ Len(sent) = 1
       /\ Changed(sent[1], TRUE)
       /\ \E i \in DOMAIN domains :
             /\ domains[i].id = Target0.id
             /\ sent[1].domain = Some([id |-> domains[i].id, name |-> domains[i].name])
             /\ \E j \in DOMAIN domains[i].records :
                   /\ domains[i].records[j].id = TheRoot(Target0).id
                   /\ Some(domains[i].records[j].data) = params.ip

\* C5: a run with state=absent, where the domain identified by id, by name or
\* by both exists, issues exactly one delete call, for that domain, and
\* reports changed=true.
C5_Delete ==
    ( /\ Answered
      /\ params.state = "absent"
      /\ Exists0 )
    => /\ Len(Writes) = 1
       /\ Writes[1].verb = "DELETE"
       /\ Writes[1].path = << "domains", IntToStr(Target0.id) >>
       /\ Len(sent) = 1
       /\ Changed(sent[1], TRUE)

\* C6: a run with state=present, where no domain matches the given id or name,
\* issues exactly one create call carrying exactly {name, ip_address}; if the
\* provider answers "created" the result is changed=true with the new domain,
\* and if the answer carries a message the run fails with changed=false and
\* that message.  (Runs whose lookup did not end in a transport fault; a
\* create call that raises has no answer.)
C6_Create ==
    ( /\ LookedUp
      /\ params.state = "present"
      /\ Supplied
      /\ ~ Exists0 )
    => /\ Len(Writes) = 1
       /\ Writes[1].verb = "POST"
       /\ Writes[1].path = << "domains" >>
       /\ DOMAIN Writes[1].data[1] = {"name", "ip_address"}
       /\ Writes[1].data[1].name = params.name
       /\ Writes[1].data[1].ip_address = params.ip
       /\ Len(sent) = 1
       /\ faulted <=> resp = None
       /\ (resp # None /\ resp[1].status_code = 201) =>
             /\ ~ sent[1].failed
             /\ Changed(sent[1], TRUE)
             /\ Len(domains) = Len(domains0) + 1
             /\ sent[1].domain = Some(Listing(domains)[Len(domains)])
             /\ Some(sent[1].domain[1].name) = params.name
       /\ (resp # None /\ HasMessage(resp[1].json)) =>
             /\ sent[1].failed
             /\ Changed(sent[1], FALSE)
             /\ sent[1].msg = resp[1].json.message

\* a create call was answered "created" and the run reported the new domain
C6_Witness ==
    /\ Answered
    /\ params.state = "present"
    /\ Supplied
    /\ ~ Exists0
    /\ domains0 # << >>
    /\ resp # None
    /\ resp[1].status_code = 201
    /\ Len(sent) = 1
    /\ Changed(sent[1], TRUE)

\* C7: in a run with state=absent, where the domain does not exist, no delete
\* call is ever issued, and the run ends with a failure result with
\* changed=false and the "Domain not found" message.  (Runs in which every
\* provider call was answered.)
C7_AbsentNotFound ==
    ( /\ params.state = "absent"
      /\ Supplied
      /\ ~ Exists0 )
    => /\ \A k \in DOMAIN calls : calls[k].verb # "DELETE"
       /\ Answered =>
             /\ Len(sent) = 1
             /\ sent[1].failed
             /\ Changed(sent[1], FALSE)
             /\ sent[1].msg = DomainNotFound

\* the listing was made, matched nothing, and the run reported the failure
C7_Witness ==
    /\ Answered
    /\ params.state = "absent"
    /\ ~ Exists0
    /\ domains0 # << >>
    /\ calls = << ListCall >>
    /\ Len(sent) = 1
    /\ sent[1].msg = DomainNotFound

\* C8: a run with state=present, where the domain exists and has no record
\* named "@" of type A, ends with an explicit ZoneRecordMissing failure, not
\* with the null dereference of the comparison, and issues no write call.
\* Stated for the runs that name the domain by id and by name, the ones in
\* which find() returns it.
C8_ZoneRecordMissing ==
    ( /\ Answered
      /\ params.state = "present"
      /\ Exists0
      /\ ByBoth(Target0)
      /\ RootRecords(Target0.records) = {} )
    => /\ Writes = << >>
       /\ Len(sent) = 1
       /\ sent[1].failed
       /\ sent[1].msg = "ZoneRecordMissing"
       /\ sent[1].msg # AttributeError

\* C9: every run, transport faults included, ends having sent exactly one
\* result: a success report with changed, or a failure report with a message;
\* never more than one result is sent.
C9_SingleReport ==
    /\ Len(sent) <= 1
    /\ pc = "done" =>
          /\ Len(sent) = 1
          /\ \/ ~ sent[1].failed /\ "changed" \in DOMAIN sent[1]
             \/ sent[1].failed /\ "msg" \in DOMAIN sent[1]

\* C10: at every point of a run at most one create, update or delete call has
\* been issued, a delete only under state=absent, a create or update only
\* under state=present.
C10_OneWrite ==
    /\ Len(Writes) <= 1
    /\ \A k \in DOMAIN Writes :
          /\ Writes[k].verb = "DELETE" => params.state = "absent"
          /\ Writes[k].verb \in {"POST", "PUT"} => params.state = "present"

\* an update call went through and the run carries on to the re-fetch
C10_Witness ==
    /\ pc = "refetch"
    /\ Len(Writes) = 1
    /\ Writes[1].verb = "PUT"
    /\ params.state = "present"

====
